---- MODULE Spec2Model ----
(***************************************************************************)
(* A to-do list over one table `tasks`.  app/actions.ts exports four       *)
(* server actions; each awaits tableCreationIfDoesNotExist() and then one  *)
(* parameterised statement on the shared pool.  app/page.tsx (listed in    *)
(* README.md) holds the two pieces of page state, `tasks` and              *)
(* `newTaskTitle`, and three handlers that await a mutation and then       *)
(* getTasks().                                                             *)
(*                                                                         *)
(* Every `await` is a point where another in-flight call may run, so each  *)
(* awaited statement is one step of the process that issued it.  The       *)
(* store is modelled by what the statements of actions.ts do to the table: *)
(* the engine, the connector and the network are not modelled, and a call  *)
(* fails only for the two reasons the statements themselves can produce    *)
(* (a value longer than its column, a table created twice).                *)
(***************************************************************************)
EXTENDS Integers, Sequences, FiniteSets, TLC

(***************************************************************************)
(* Bounds of the model.                                                    *)
(***************************************************************************)
MaxActions == 2
MaxBulk == 150

(***************************************************************************)
(* Values fixed by the program.                                             *)
(***************************************************************************)
ListLimit == 100
TitleColumnLen == 1024

\* One process per handler of the page or outside call.
Procs == 1..MaxActions

\* A title stands for a string; OversizedTitle stands for one of
\* TitleColumnLen + 1 characters, the others for themselves.
OversizedTitle == "OVERSIZED"
InputTitles == {"", "Buy milk", OversizedTitle}

CharLength(t) == IF t = OversizedTitle THEN TitleColumnLen + 1 ELSE Len(t)

\* title VARCHAR(1024): a longer value is rejected by the store.
FitsTitleColumn(t) == CharLength(t) <= TitleColumnLen

NoTask == [id |-> 0, status |-> "IN_PROGRESS", title |-> ""]

VARIABLES
    tableExists,    \* the table `tasks` has been created
    rows,           \* the rows of `tasks`
    seq,            \* last value handed out by the SERIAL sequence of `id`
    clock,          \* the store's clock, read by NOW()
    tasks,          \* page state: the rendered list
    newTaskTitle,   \* page state: the text of the input field
    pc,             \* per process: the await it is suspended at
    handler,        \* per process: what started it
    op,             \* per process: the server action it is inside
    arg,            \* per process: the argument of that server action
    callTime,       \* per process: the clock when the server action was called
    res,            \* per process: rows returned by its SELECT
    progress,       \* per process: what its handler has completed so far
    last,           \* what the statement of the step just taken came to
    overlap,        \* per process: another UPDATE of the same id, with other
                    \* values, was committed while this one was in flight
    raced,          \* ids whose row was last written by such an UPDATE
    deleted         \* ids whose row a DELETE has removed

store == <<tableExists, rows, seq>>
page == <<tasks, newTaskTitle>>
procs == <<pc, handler, op, arg, callTime, res, progress>>
vars == <<tableExists, rows, seq, clock, tasks, newTaskTitle, pc, handler,
          op, arg, callTime, res, progress, last, overlap, raced, deleted>>

Ids(R) == {r.id : r \in R}

\* What pool.query() gave the process whose statement ran last: the
\* statement, the id it named, whether a row had that id, and the error it
\* rejected with.
NoStatement == [op |-> "none", id |-> 0, matched |-> FALSE, error |-> "none"]

Outcome(p, e) ==
    [op |-> IF pc[p] = "tableCreate" THEN "create" ELSE op[p],
     id |-> arg[p].id,
     matched |-> pc[p] = "statement" /\ arg[p].id \in Ids(rows),
     error |-> e]

(***************************************************************************)
(* The statements of actions.ts, as functions of the table.  Each is       *)
(* preceded by the variants of it that the properties at the end of the    *)
(* module tell apart from it.                                              *)
(***************************************************************************)

\* id SERIAL: the next value of the sequence.
NextIdReusing(s, R) == IF R = {} THEN 1
                       ELSE 1 + CHOOSE m \in Ids(R) : \A i \in Ids(R) : i <= m
NextId(s, R) == s + 1

\* INSERT INTO tasks(created_at, status, title) VALUES(NOW(), 'IN_PROGRESS', $1)
InsertedRowComplete(id, now, title) ==
    [id |-> id, created_at |-> now, status |-> "COMPLETE", title |-> title]
InsertedRow(id, now, title) ==
    [id |-> id, created_at |-> now, status |-> "IN_PROGRESS", title |-> title]

\* UPDATE tasks SET status = $1, title = $2 WHERE id = $3
UpdateRowsNoWhere(R, task) ==
    {[r EXCEPT !.status = task.status, !.title = task.title] : r \in R}
UpdateRowsUpsert(R, task) ==
    IF task.id \in Ids(R)
    THEN {IF r.id = task.id
          THEN [r EXCEPT !.status = task.status, !.title = task.title]
          ELSE r : r \in R}
    ELSE R \cup {[id |-> task.id, created_at |-> 0,
                  status |-> task.status, title |-> task.title]}
UpdateRowsStatusOnly(R, task) ==
    {IF r.id = task.id THEN [r EXCEPT !.status = task.status] ELSE r : r \in R}
UpdateRows(R, task) ==
    {IF r.id = task.id
     THEN [r EXCEPT !.status = task.status, !.title = task.title]
     ELSE r : r \in R}

\* DELETE FROM tasks WHERE id = $1
DeleteRowsUpTo(R, id) == {r \in R : r.id > id}
DeleteRows(R, id) == {r \in R : r.id # id}

\* The orders in which the store may hand out rows of equal created_at.
RECURSIVE Arrangements(_)
Arrangements(G) ==
    IF G = {} THEN {<<>>}
    ELSE UNION {{<<r>> \o s : s \in Arrangements(G \ {r})} : r \in G}

\* ORDER BY created_at DESC: every sequence of all the rows of R in which no
\* row comes before a row of later created_at.  The rows are split at the
\* median creation time, the newer half sorted before the older.
RECURSIVE OrderByCreatedAtDesc(_)
OrderByCreatedAtDesc(R) ==
    LET times == {r.created_at : r \in R}
    IN  IF Cardinality(times) <= 1 THEN Arrangements(R)
        ELSE LET mid == CHOOSE t \in times :
                           Cardinality({u \in times : u > t}) =
                              Cardinality(times) \div 2
                 newer == {r \in R : r.created_at > mid}
             IN  {a \o b : a \in OrderByCreatedAtDesc(newer),
                           b \in OrderByCreatedAtDesc(R \ newer)}

\* LIMIT k
Limit(s, k) == SubSeq(s, 1, IF Len(s) < k THEN Len(s) ELSE k)

Reverse(s) == [i \in 1..Len(s) |-> s[Len(s) + 1 - i]]

\* SELECT id, created_at, status, title FROM tasks
\* ORDER BY created_at DESC LIMIT 100: every sequence the store may return.
\* (SelectTasksAscending: the statement without DESC.)
SelectTasksAscending(R) ==
    {Limit(Reverse(s), ListLimit) : s \in OrderByCreatedAtDesc(R)}
SelectTasks(R) == {Limit(s, ListLimit) : s \in OrderByCreatedAtDesc(R)}

(***************************************************************************)
(* The handlers of page.tsx: what a handler does after each await.         *)
(***************************************************************************)

\* The await that follows a completed mutation: `await getTasks()`.
AfterMutationClearing(h) == IF h = "handleSubmit" THEN "setNewTaskTitle" ELSE "getTasks"
AfterMutation(h) == "getTasks"

\* What follows setTasks(updatedListOfTasks).
AfterSetTasks(h) == IF h = "handleSubmit" THEN "setNewTaskTitle" ELSE "over"

\* What follows an await that rejects: nothing catches it, so the handler
\* is over.
AfterRejectionSwallowed(h) == IF h = "handleSubmit" THEN "setNewTaskTitle" ELSE "over"
AfterRejection(h) == "over"

(***************************************************************************)
(* Initial states.  The module is loaded (the pool is built) against a     *)
(* database that outlives the process: one that has no table yet, or one   *)
(* that earlier runs of the four server actions have left behind.  The     *)
(* page is not mounted: useState('') and useState([]).                     *)
(***************************************************************************)
Row(id, at, st, t) == [id |-> id, created_at |-> at, status |-> st, title |-> t]

InitialStores ==
    { \* no table yet
      [tableExists |-> FALSE, rows |-> {}, seq |-> 0, clock |-> 0],
      \* two tasks added, the second one deleted
      [tableExists |-> TRUE, seq |-> 2, clock |-> 0,
       rows |-> {Row(1, 0, "IN_PROGRESS", "Buy milk")}],
      \* two tasks added at different times, the first one completed
      [tableExists |-> TRUE, seq |-> 2, clock |-> 1,
       rows |-> {Row(1, 0, "COMPLETE", "Buy milk"), Row(2, 1, "IN_PROGRESS", "T")}],
      \* two tasks added at the same time
      [tableExists |-> TRUE, seq |-> 2, clock |-> 0,
       rows |-> {Row(1, 0, "IN_PROGRESS", "Buy milk"), Row(2, 0, "IN_PROGRESS", "T")}] }

Init ==
    /\ \E s \in InitialStores :
          /\ tableExists = s.tableExists
          /\ rows = s.rows
          /\ seq = s.seq
          /\ clock = s.clock
    /\ tasks = <<>>
    /\ newTaskTitle = ""
    /\ pc = [p \in Procs |-> "idle"]
    /\ handler = [p \in Procs |-> "none"]
    /\ op = [p \in Procs |-> "none"]
    /\ arg = [p \in Procs |-> NoTask]
    /\ callTime = [p \in Procs |-> 0]
    /\ res = [p \in Procs |-> <<>>]
    /\ progress = [p \in Procs |-> {}]
    /\ last = NoStatement
    /\ overlap = [p \in Procs |-> FALSE]
    /\ raced = {}
    /\ deleted = {}

InCall(p) == pc[p] \in {"tableCreate", "statement"}

\* Every server action begins with `await tableCreationIfDoesNotExist()`:
\* CREATE TABLE IF NOT EXISTS tasks (...).  The store looks the table up
\* when the statement arrives; if it is there the statement is over and the
\* server action goes on to its own statement, else the session goes on to
\* create the table.  The lookup takes no lock that would keep a second
\* session from looking the table up as well before the first has created it.
tableLookup == IF tableExists THEN "statement" ELSE "tableCreate"

\* Process p starts handler h, whose first await is server action o(a).
\* Processes that have not begun are interchangeable: the lowest one does.
\* Two handlers or calls are in flight at a time.
InFlight == {q \in Procs : pc[q] \notin {"idle", "over"}}

Start(p, h, o, a) ==
    /\ pc[p] = "idle"
    /\ \A q \in Procs : q < p => pc[q] # "idle"
    /\ Cardinality(InFlight) < 2
    /\ pc' = [pc EXCEPT ![p] = tableLookup]
    /\ handler' = [handler EXCEPT ![p] = h]
    /\ op' = [op EXCEPT ![p] = o]
    /\ arg' = [arg EXCEPT ![p] = a]
    /\ callTime' = [callTime EXCEPT ![p] = clock]
    /\ last' = NoStatement
    /\ UNCHANGED <<store, clock, page, res, progress, overlap, raced, deleted>>

\* Process p is over.
Finish(p) ==
    /\ pc' = [pc EXCEPT ![p] = "over"]
    /\ handler' = [handler EXCEPT ![p] = "none"]
    /\ op' = [op EXCEPT ![p] = "none"]
    /\ arg' = [arg EXCEPT ![p] = NoTask]
    /\ callTime' = [callTime EXCEPT ![p] = 0]
    /\ res' = [res EXCEPT ![p] = <<>>]
    /\ progress' = [progress EXCEPT ![p] = {}]

\* The await of p rejects with error e.
Reject(p, e) ==
    /\ last' = Outcome(p, e)
    /\ IF AfterRejection(handler[p]) = "over"
       THEN Finish(p)
       ELSE /\ pc' = [pc EXCEPT ![p] = AfterRejection(handler[p])]
            /\ UNCHANGED <<handler, op, arg, callTime, res, progress>>

\* The mutation p awaited has resolved.
Resolve(p) ==
    /\ last' = Outcome(p, "none")
    /\ IF handler[p] = "caller"
       THEN Finish(p)
       ELSE /\ progress' = [progress EXCEPT ![p] = @ \cup {"mutated"}]
            /\ IF AfterMutation(handler[p]) = "getTasks"
               THEN /\ pc' = [pc EXCEPT ![p] = tableLookup]
                    /\ op' = [op EXCEPT ![p] = "list"]
                    /\ callTime' = [callTime EXCEPT ![p] = clock]
               ELSE /\ pc' = [pc EXCEPT ![p] = AfterMutation(handler[p])]
                    /\ UNCHANGED <<op, callTime>>
            /\ UNCHANGED <<handler, arg, res>>

(***************************************************************************)
(* page.tsx                                                                *)
(***************************************************************************)

\* onChange of the input field.
onChange(t) ==
    /\ newTaskTitle' = t
    /\ newTaskTitle # t
    /\ last' = NoStatement
    /\ UNCHANGED <<store, clock, tasks, procs, overlap, raced, deleted>>

\* useEffect(() => { getTasks(); }, [])
useEffect(p) == Start(p, "useEffect", "list", NoTask)

\* handleSubmit: await addNewTaskToDatabase(newTaskTitle)
handleSubmit(p) ==
    /\ Start(p, "handleSubmit", "add", [NoTask EXCEPT !.title = newTaskTitle])

\* The checkbox of rendered task i:
\* updateTask(task, {status: isComplete ? 'IN_PROGRESS' : 'COMPLETE'})
updateTask(p, i) ==
    /\ i \in DOMAIN tasks
    /\ Start(p, "updateTask", "update",
             [id |-> tasks[i].id,
              status |-> IF tasks[i].status = "COMPLETE" THEN "IN_PROGRESS"
                         ELSE "COMPLETE",
              title |-> tasks[i].title])

\* The Delete button of rendered task i: deleteTask(task.id)
deleteTask(p, i) ==
    /\ i \in DOMAIN tasks
    /\ Start(p, "deleteTask", "delete", [NoTask EXCEPT !.id = tasks[i].id])

\* setTasks(updatedListOfTasks), at the end of getTasks()
setTasks(p) ==
    /\ pc[p] = "setTasks"
    /\ tasks' = res[p]
    /\ last' = NoStatement
    /\ IF AfterSetTasks(handler[p]) = "over"
       THEN Finish(p)
       ELSE /\ pc' = [pc EXCEPT ![p] = AfterSetTasks(handler[p])]
            /\ progress' = [progress EXCEPT ![p] = @ \cup {"refreshed"}]
            /\ UNCHANGED <<handler, op, arg, callTime, res>>
    /\ UNCHANGED <<store, clock, newTaskTitle, overlap, raced, deleted>>

\* setNewTaskTitle(''), the last line of handleSubmit
setNewTaskTitle(p) ==
    /\ pc[p] = "setNewTaskTitle"
    /\ newTaskTitle' = ""
    /\ last' = NoStatement
    /\ Finish(p)
    /\ UNCHANGED <<store, clock, tasks, overlap, raced, deleted>>

(***************************************************************************)
(* Any other caller of the exported server actions.                        *)
(***************************************************************************)
callUpdate(p, task) == Start(p, "caller", "update", task)

callDelete(p, id) == Start(p, "caller", "delete", [NoTask EXCEPT !.id = id])

(***************************************************************************)
(* actions.ts                                                              *)
(***************************************************************************)

\* tableCreationIfDoesNotExist, when the lookup found no table: the session
\* creates it.  If another session has created it in the meantime the
\* catalog's unique index rejects the second one and pool.query() rejects.
tableCreationIfDoesNotExist(p) ==
    /\ pc[p] = "tableCreate"
    /\ IF tableExists
       THEN /\ Reject(p, "duplicate_table")
            /\ UNCHANGED tableExists
       ELSE /\ tableExists' = TRUE
            /\ pc' = [pc EXCEPT ![p] = "statement"]
            /\ last' = Outcome(p, "none")
            /\ UNCHANGED <<handler, op, arg, callTime, res, progress>>
    /\ UNCHANGED <<rows, seq, clock, page, overlap, raced, deleted>>

\* NOW(): the store's clock when the statement runs.  The unit of time is
\* what passes between two statements that read the clock; rows that carry
\* the same created_at are left by the two sessions of an earlier run
\* (InitialStores).
NOW == clock + 1

\* addNewTaskToDatabase: the INSERT.
addNewTaskToDatabase(p) ==
    /\ pc[p] = "statement" /\ op[p] = "add"
    /\ clock' = NOW
    /\ IF FitsTitleColumn(arg[p].title)
       THEN /\ rows' = rows \cup {InsertedRow(NextId(seq, rows), NOW, arg[p].title)}
            /\ seq' = NextId(seq, rows)
            /\ Resolve(p)
       ELSE /\ Reject(p, "value_too_long")
            /\ UNCHANGED <<rows, seq>>
    /\ UNCHANGED <<tableExists, page, overlap, raced, deleted>>

\* getTasksFromDatabase: the SELECT; getTasks() then calls setTasks(rows).
getTasksFromDatabase(p) ==
    /\ pc[p] = "statement" /\ op[p] = "list"
    /\ \E s \in SelectTasks(rows) : res' = [res EXCEPT ![p] = s]
    /\ pc' = [pc EXCEPT ![p] = "setTasks"]
    /\ last' = Outcome(p, "none")
    /\ UNCHANGED <<store, clock, page, handler, op, arg, callTime, progress,
                   overlap, raced, deleted>>

\* The other processes inside an UPDATE of the same id with other values.
Rivals(p) ==
    {q \in Procs \ {p} : /\ InCall(q) /\ op[q] = "update"
                         /\ arg[q].id = arg[p].id
                         /\ <<arg[q].status, arg[q].title>> #
                            <<arg[p].status, arg[p].title>>}

\* updateTaskInDatabase: the UPDATE.
updateTaskInDatabase(p) ==
    /\ pc[p] = "statement" /\ op[p] = "update"
    /\ IF FitsTitleColumn(arg[p].title)
       THEN /\ rows' = UpdateRows(rows, arg[p])
            /\ Resolve(p)
            /\ IF arg[p].id \in Ids(rows)
               THEN /\ overlap' = [q \in Procs |->
                                     IF q = p THEN FALSE
                                     ELSE overlap[q] \/ q \in Rivals(p)]
                    /\ raced' = IF overlap[p] THEN raced \cup {arg[p].id}
                                ELSE raced \ {arg[p].id}
               ELSE /\ overlap' = [overlap EXCEPT ![p] = FALSE]
                    /\ UNCHANGED raced
       ELSE /\ Reject(p, "value_too_long")
            /\ overlap' = [overlap EXCEPT ![p] = FALSE]
            /\ UNCHANGED <<rows, raced>>
    /\ UNCHANGED <<tableExists, seq, clock, page, deleted>>

\* deleteTaskFromDatabase: the DELETE.
deleteTaskFromDatabase(p) ==
    /\ pc[p] = "statement" /\ op[p] = "delete"
    /\ rows' = DeleteRows(rows, arg[p].id)
    /\ raced' = raced \cap Ids(rows')
    /\ deleted' = deleted \cup (Ids(rows) \ Ids(rows'))
    /\ Resolve(p)
    /\ UNCHANGED <<tableExists, seq, clock, page, overlap>>

\* What an outside caller may pass: the id of a row, of a deleted row or
\* one the sequence has not reached, with values for the two columns.
CallIds == 1..(seq + 1)
CallValues == {<<"COMPLETE", "T">>, <<"IN_PROGRESS", "T">>,
               <<"COMPLETE", OversizedTitle>>}

Next ==
    \/ \E t \in InputTitles : onChange(t)
    \/ \E p \in Procs : useEffect(p)
    \/ \E p \in Procs : handleSubmit(p)
    \/ \E p \in Procs, i \in 1..Len(tasks) : updateTask(p, i)
    \/ \E p \in Procs, i \in 1..Len(tasks) : deleteTask(p, i)
    \/ \E p \in Procs : setTasks(p)
    \/ \E p \in Procs : setNewTaskTitle(p)
    \/ \E p \in Procs, id \in CallIds, v \in CallValues :
          callUpdate(p, [id |-> id, status |-> v[1], title |-> v[2]])
    \/ \E p \in Procs, id \in CallIds : callDelete(p, id)
    \/ \E p \in Procs : tableCreationIfDoesNotExist(p)
    \/ \E p \in Procs : addNewTaskToDatabase(p)
    \/ \E p \in Procs : getTasksFromDatabase(p)
    \/ \E p \in Procs : updateTaskInDatabase(p)
    \/ \E p \in Procs : deleteTaskFromDatabase(p)

Spec == Init /\ [][Next]_vars

(***************************************************************************)
(* Properties.                                                             *)
(*                                                                         *)
(* The effect of a server action is the effect of its statement, so the    *)
(* properties of addNewTaskToDatabase, getTasksFromDatabase,               *)
(* updateTaskInDatabase and deleteTaskFromDatabase are stated on the step  *)
(* in which the statement runs, whatever the other processes have done     *)
(* before it.  The schema step they all begin with is the subject of C7.   *)
(***************************************************************************)

\* This step is the statement of server action o, run for process p.
Ran(p, o) ==
    /\ pc[p] = "statement" /\ op[p] = o
    /\ <<pc'[p], op'[p]>> # <<pc[p], op[p]>>

\* ---- C1 ----------------------------------------------------------------

\* The UPDATE of process p adds no row, removes none, and leaves every row
\* with another id, and the id and created_at of the row it names, as they
\* were.
UpdateFrame(p) ==
    /\ Ids(rows') = Ids(rows)
    /\ Cardinality(rows') = Cardinality(rows)
    /\ \A r \in rows : r.id # arg[p].id => r \in rows'
    /\ \A r \in rows' : r.id = arg[p].id =>
          \E o \in rows : o.id = r.id /\ o.created_at = r.created_at

\* The row the UPDATE of process p names now has the status and title given.
UpdateEffect(p) ==
    \A r \in rows' : r.id = arg[p].id =>
        r.status = arg[p].status /\ r.title = arg[p].title

\* C1: for every store state and every task argument
\* {id: X, status: S, title: T}, updateTaskInDatabase changes only the row
\* whose id is X: no other row is changed, added or removed, and the id and
\* created_at of that row stay; its status becomes S and its title T.  (A
\* task's title is a bounded string: T is one the title column holds.  The
\* first part is checked for every T.)
C1_UpdateChangesOnlyItsRow ==
    [][\A p \in Procs :
          Ran(p, "update") =>
             /\ UpdateFrame(p)
             /\ FitsTitleColumn(arg[p].title) =>
                   last'.error = "none" /\ UpdateEffect(p)]_vars

\* Row 1 has been given a new status and a new title; row 2 is as it was.
C1_Witness ==
    /\ last.op = "update" /\ last.id = 1 /\ last.matched /\ last.error = "none"
    /\ Row(1, 0, "IN_PROGRESS", "T") \in rows
    /\ Row(2, 1, "IN_PROGRESS", "T") \in rows

\* ---- C2 ----------------------------------------------------------------

\* C2: deleteTaskFromDatabase(X) removes the row whose id is X and leaves
\* every other row unchanged; when X has been deleted before, the call
\* succeeds without error and leaves the store exactly as it was.
C2_DeleteRemovesOnlyItsRow ==
    [][\A p \in Procs :
          Ran(p, "delete") =>
             /\ last'.error = "none"
             /\ arg[p].id \notin Ids(rows')
             /\ rows' \subseteq rows
             /\ \A r \in rows : r.id # arg[p].id => r \in rows'
             /\ arg[p].id \in deleted => UNCHANGED store]_vars

\* A DELETE of an id that an earlier DELETE removed has succeeded, and
\* another row is still there.
C2_Witness ==
    /\ last.op = "delete" /\ ~last.matched /\ last.error = "none"
    /\ last.id \in deleted
    /\ rows # {}

\* ---- C3 ----------------------------------------------------------------

\* C3: an UPDATE or a DELETE whose id matches no row completes without
\* error, changes no row and creates no row; an update on the id of a
\* deleted task does not bring the task back.  (A statement the store
\* rejects for its title is the case of C9.)
C3_UnknownIdIsNoOp ==
    [][\A p \in Procs :
          (Ran(p, "update") \/ Ran(p, "delete")) /\ arg[p].id \notin Ids(rows)
             => /\ rows' = rows
                /\ seq' = seq
                /\ FitsTitleColumn(arg[p].title) => last'.error = "none"]_vars

\* An UPDATE naming the id of a deleted task has succeeded and the task is
\* still gone.
C3_Witness ==
    /\ last.op = "update" /\ ~last.matched /\ last.error = "none"
    /\ last.id \in deleted
    /\ last.id \notin Ids(rows)

\* ---- C4 ----------------------------------------------------------------

\* C4: addNewTaskToDatabase(title) adds exactly one new row with status
\* IN_PROGRESS, the given title, an id that no row has and a creation time
\* no earlier than the moment of the call, and leaves the existing rows
\* unchanged; a list taken while that row has the strictly latest creation
\* time returns it first.
C4_AddInsertsOneRow ==
    [][\A p \in Procs :
          /\ Ran(p, "add") /\ FitsTitleColumn(arg[p].title) =>
                /\ last'.error = "none"
                /\ \E n \in rows' :
                      /\ n \notin rows
                      /\ rows' = rows \cup {n}
                      /\ n.id \notin Ids(rows)
                      /\ n.status = "IN_PROGRESS"
                      /\ n.title = arg[p].title
                      /\ n.created_at >= callTime[p]
          /\ Ran(p, "list") =>
                \A r \in rows :
                   (\A y \in rows \ {r} : y.created_at < r.created_at)
                      => res'[p] # <<>> /\ res'[p][1] = r]_vars

\* handleSubmit has added "Buy milk" to a store that held tasks, and its
\* list shows the new task first.
C4_Witness ==
    \E p \in Procs :
       /\ handler[p] = "handleSubmit" /\ pc[p] = "setTasks"
       /\ arg[p].title = "Buy milk"
       /\ Len(res[p]) >= 2
       /\ res[p][1].id = seq
       /\ res[p][1].status = "IN_PROGRESS"
       /\ res[p][1].title = "Buy milk"
       /\ res[p][1].created_at > callTime[p]
       /\ \A i \in 2..Len(res[p]) : res[p][i].id < seq

\* ---- C5 ----------------------------------------------------------------

(***************************************************************************)
(* The list over large stores.  The store holds the rows that n earlier    *)
(* calls of addNewTaskToDatabase have left: added one after the other;     *)
(* added by two sessions whose inserts crossed, so that ids and creation   *)
(* times disagree pairwise; added with every other one deleted since; or   *)
(* with the two oldest added at the same time.  The page is mounted and    *)
(* tasks are submitted.                                                    *)
(***************************************************************************)
BulkSizes == {0, 1, 2, ListLimit - 1, ListLimit, ListLimit + 1, MaxBulk}
BulkShapes == {"in order", "crossed", "thinned", "tied"}

BulkTime(shape, i) ==
    CASE shape = "crossed" -> IF i % 2 = 1 THEN i + 1 ELSE i - 1
      [] shape = "tied"    -> IF i = 1 THEN 2 ELSE i
      [] OTHER             -> i

BulkRows(shape, n) ==
    {Row(IF shape = "thinned" THEN 2 * i ELSE i, BulkTime(shape, i),
         IF i % 3 = 0 THEN "COMPLETE" ELSE "IN_PROGRESS", "T") : i \in 1..n}

InitList ==
    /\ \E n \in BulkSizes, shape \in BulkShapes :
          /\ rows = BulkRows(shape, n)
          /\ seq = IF shape = "thinned" THEN 2 * n ELSE n
          /\ clock = n + 1
    /\ tableExists = TRUE
    /\ tasks = <<>>
    /\ newTaskTitle = ""
    /\ pc = [p \in Procs |-> "idle"]
    /\ handler = [p \in Procs |-> "none"]
    /\ op = [p \in Procs |-> "none"]
    /\ arg = [p \in Procs |-> NoTask]
    /\ callTime = [p \in Procs |-> 0]
    /\ res = [p \in Procs |-> <<>>]
    /\ progress = [p \in Procs |-> {}]
    /\ last = NoStatement
    /\ overlap = [p \in Procs |-> FALSE]
    /\ raced = {}
    /\ deleted = {}

NextList ==
    \/ \E p \in Procs : useEffect(p)
    \/ \E p \in Procs : handleSubmit(p)
    \/ \E p \in Procs : setTasks(p)
    \/ \E p \in Procs : setNewTaskTitle(p)
    \/ \E p \in Procs : addNewTaskToDatabase(p)
    \/ \E p \in Procs : getTasksFromDatabase(p)

SpecList == InitList /\ [][NextList]_vars

DistinctCreationTimes(R) ==
    Cardinality({r.created_at : r \in R}) = Cardinality(R)

\* C5: over a store holding n tasks with distinct creation times,
\* getTasksFromDatabase returns min(n, 100) tasks in strictly descending
\* order of creation time, and when n > 100 they are the 100 newest; it
\* returns the empty sequence when n = 0, never fails, and changes no row.
\* (Whatever the creation times, it returns min(n, 100) different rows of
\* the table, none newer than the one before it.)
C5_ListIsNewestFirstAndCapped ==
    [][\A p \in Procs :
          Ran(p, "list") =>
             LET s == res'[p]
                 n == Cardinality(rows)
             IN  /\ last'.error = "none"
                 /\ UNCHANGED store
                 /\ Len(s) = IF n < ListLimit THEN n ELSE ListLimit
                 /\ n = 0 => s = <<>>
                 /\ \A i \in 1..Len(s) : s[i] \in rows
                 /\ Cardinality({s[i] : i \in 1..Len(s)}) = Len(s)
                 /\ \A i \in 1..(Len(s) - 1) :
                       s[i].created_at >= s[i + 1].created_at
                 /\ DistinctCreationTimes(rows) =>
                       /\ \A i \in 1..(Len(s) - 1) :
                             s[i].created_at > s[i + 1].created_at
                       /\ \A r \in rows \ {s[i] : i \in 1..Len(s)} :
                             r.created_at < s[Len(s)].created_at]_vars

\* A list over more than 100 tasks with distinct creation times has
\* returned 100 of them, and some task is left out.
C5_Witness ==
    \E p \in Procs :
       /\ pc[p] = "setTasks"
       /\ DistinctCreationTimes(rows)
       /\ Cardinality(rows) > ListLimit
       /\ Len(res[p]) = ListLimit
       /\ \E r \in rows : \A i \in 1..Len(res[p]) : res[p][i] # r

\* ---- C6 ----------------------------------------------------------------

\* C6: no two rows share an id; every id given to a new row is greater
\* than every id given out before, those of deleted rows included, so an
\* id is never given to a later row.
C6_IdsAreUniqueAndIncreasing ==
    /\ [](/\ Cardinality(Ids(rows)) = Cardinality(rows)
          /\ \A i \in Ids(rows) \cup deleted : i <= seq)
    /\ [][/\ seq' >= seq
          /\ \A i \in Ids(rows') \ Ids(rows) : i > seq /\ i <= seq']_vars

\* A task has been added after another was deleted, and its id is above
\* the deleted one's.
C6_Witness ==
    /\ last.op = "add" /\ last.error = "none"
    /\ deleted # {}
    /\ \E r \in rows : r.id = seq /\ \A d \in deleted : d < r.id

\* ---- C7 ----------------------------------------------------------------

\* C7 as the specification words it: tableCreationIfDoesNotExist, called
\* any number of times, on every action call and from concurrent first
\* calls, leaves exactly one table, never errors because the table already
\* exists, and never alters existing rows.
C7_AsClaimed ==
    [][\A p \in Procs :
          pc[p] = "tableCreate" /\ pc'[p] # "tableCreate"
             => /\ last'.error = "none"
                /\ tableExists'
                /\ rows' = rows]_vars

\* ---- C8 ----------------------------------------------------------------

\* C8: of two overlapping updates of one task with different values, both
\* succeed, and the row carries the status and title of the one whose
\* statement ran last, whatever the one before it wrote.
C8_LastWriteWins ==
    [][\A p \in Procs :
          /\ Ran(p, "update") /\ overlap[p]
          /\ arg[p].id \in Ids(rows) /\ FitsTitleColumn(arg[p].title)
          => /\ last'.error = "none"
             /\ \A r \in rows' : r.id = arg[p].id =>
                   r.status = arg[p].status /\ r.title = arg[p].title]_vars

\* The second of two overlapping updates of one task has succeeded.
C8_Witness ==
    /\ last.op = "update" /\ last.matched /\ last.error = "none"
    /\ last.id \in raced
    /\ \E r \in rows : r.id = last.id /\ r.title = "T"

\* ---- C9 ----------------------------------------------------------------

\* C9: when a server action rejects, the handler that awaited it is over:
\* the rendered list and the input text are as they were, the store is as
\* it was, and the handler issues no further call.
C9_FailureChangesNothing ==
    [][last'.error # "none" =>
          /\ UNCHANGED <<tasks, newTaskTitle>>
          /\ UNCHANGED <<tableExists, rows, seq>>
          /\ \E p \in Procs :
                /\ InCall(p) /\ pc'[p] = "over"
                /\ \A q \in Procs \ {p} : pc'[q] = pc[q]]_vars

\* The submit of an oversized title has been rejected; the input still
\* holds the text.
C9_Witness ==
    /\ last.op = "add" /\ last.error = "value_too_long"
    /\ newTaskTitle = OversizedTitle
    /\ \E p \in Procs : pc[p] = "over"

\* ---- C10 ---------------------------------------------------------------

MutatingHandlers == {"handleSubmit", "updateTask", "deleteTask"}

\* C10: a handler of the page calls the list only in the step in which its
\* mutation has succeeded; the rendered list changes only to the rows a
\* list has returned, for a mutating handler the list taken after its
\* mutation; and a handler clears the input only at the end of a submit
\* whose mutation and refresh are both done.
C10_MutationThenRefresh ==
    [][/\ \A p \in Procs :
             handler[p] \in MutatingHandlers /\ op[p] # "list" /\ op'[p] = "list"
                => Ran(p, op[p]) /\ last'.error = "none"
       /\ tasks' # tasks =>
             \E p \in Procs :
                /\ pc[p] = "setTasks" /\ tasks' = res[p]
                /\ handler[p] \in MutatingHandlers => "mutated" \in progress[p]
       /\ newTaskTitle' # newTaskTitle /\ pc' # pc =>
             /\ newTaskTitle' = ""
             /\ \E p \in Procs :
                   /\ pc'[p] # pc[p]
                   /\ handler[p] = "handleSubmit"
                   /\ {"mutated", "refreshed"} \subseteq progress[p]]_vars

\* A submit has added its task and shown the refreshed list, and is about
\* to clear the input.
C10_Witness ==
    \E p \in Procs :
       /\ pc[p] = "setNewTaskTitle"
       /\ {"mutated", "refreshed"} \subseteq progress[p]
       /\ newTaskTitle # "" /\ arg[p].title = newTaskTitle
       /\ tasks # <<>> /\ tasks[1].title = newTaskTitle /\ tasks[1].id = seq

====
